---- MODULE Spec2Model ----
(***************************************************************************)
(* glockmon: a Monitor (monitor.go) that registers long lock waits, and    *)
(* MonitoredMutex (monitored_mutex.go), a sync.Mutex wrapper reporting to  *)
(* it.  Goroutines are the threads of the model; every statement that      *)
(* touches shared state is one step, so that the interleavings the two     *)
(* mutexes allow (and those they forbid) are explicit.                     *)
(*                                                                         *)
(* Several client programs drive the same code:                            *)
(*   Spec        goroutines calling the Monitor's exported methods         *)
(*   SpecCopy    the same, keeping and writing to the maps the reads return*)
(*   SpecLock    goroutines calling Lock / Unlock on MonitoredMutex values *)
(*   SpecSetup   the same, building the values with New and SetCategory    *)
(*   SpecCapture one call of getStackTrace (stacktrace.go)                 *)
(***************************************************************************)
EXTENDS Integers, FiniteSets, Sequences, TLC

\* ------------------------------------------------------------------ bounds
NumThreads    == 2      \* goroutines
NumStacks     == 3      \* distinct stack texts 1..NumStacks
NumCategories == 2      \* category labels 1..NumCategories
MaxWait       == 2      \* waits range over 0..MaxWait
MaxAdds       == 2      \* Add calls per run (caps Count and TotalWait)
NumMutexes    == 2      \* MonitoredMutex instances

Threads    == 1..NumThreads
Stacks     == 1..NumStacks
Categories == 1..NumCategories
Waits      == 0..MaxWait
Mutexes    == 1..NumMutexes

NoThread == 0           \* an unlocked sync.Mutex
NoStack  == 0           \* the zero string of a local not yet assigned
NoMutex  == 0           \* the goroutine is not inside Lock / Unlock

\* ------------------------------------------------------------- stacktrace.go
\* xxhash.Sum64String: a deterministic digest of the text, onto all of uint64.
\* It is many-to-one (texts 2 and 3 collide) and 0 is one of its values (text 1).
hashStack(stack) == stack \div 2

Ids == {hashStack(s) : s \in Stacks}

\* for size := 1024; size <= 65536; size *= 2
BaseSize == 1024
MaxSize  == 65536

RECURSIVE SizesFrom(_)
SizesFrom(s) == IF s > MaxSize THEN {} ELSE {s} \cup SizesFrom(2 * s)

\* The buffer sizes the loop goes through.
Sizes == SizesFrom(BaseSize)

\* Lengths in bytes of the text runtime.Stack has to write: none, and one byte
\* less than, exactly, and one byte more than each buffer size.
Depths == {0} \cup {s - 1 : s \in Sizes} \cup Sizes \cup {s + 1 : s \in Sizes}

\* string(buf[:n]): the first len bytes of the goroutine's stack text
Text(len) == [kind |-> "text", len |-> len]
\* "stack trace too deep"
Sentinel == [kind |-> "sentinel"]

\* --------------------------------------------------------------- monitor.go
\* LockInfo.  Timestamp (time.Now() at the report) is stored and copied along with
\* the other fields and read by nothing in the package but the HTTP encoder; the
\* records of the model carry the three fields the Monitor computes with.
LockInfo == [Wait : Waits, Stack : Stacks, Category : Categories]

NoInfo == [Wait |-> 0, Stack |-> NoStack, Category |-> 0]

\* &CategoryStats{}
ZeroStats == [Count |-> 0, TotalWait |-> 0, AverageWait |-> 0]

\* Go map assignment m[k] = v and delete(m, k), on maps held as functions.
MapPut(m, k, v) == [x \in (DOMAIN m) \cup {k} |-> IF x = k THEN v ELSE m[x]]
MapDelete(m, k) == [x \in (DOMAIN m) \ {k} |-> m[x]]
EmptyMap == [x \in {} |-> 0]

NoResult == [kind |-> "none"]

VARIABLES
    \* Monitor
    mu,             \* Monitor.mu: the goroutine holding it, or NoThread
    longLocks,      \* map[uint64]LockInfo
    stackCache,     \* map[uint64]string
    categoryStats,  \* map[string]*CategoryStats
    keepRecords,    \* cfg.KeepRecords
    defaultCategory,\* cfg.DefaultCategory
    \* MonitoredMutex, per instance
    mmu,            \* MonitoredMutex.mu: the goroutine holding it, or NoThread
    monitor,        \* TRUE when a *Monitor is attached, FALSE when it is nil
    lockedKey,      \* MonitoredMutex.lockedKey
    category,       \* MonitoredMutex.category
    \* goroutines
    pc,             \* the statement each goroutine is at
    self,           \* the MonitoredMutex whose Lock / Unlock it is in (or holds)
    wait,           \* Lock's local wait
    over,           \* history: the wait of the Lock the goroutine is in, or holds by,
                    \*   exceeded the threshold
    stack,          \* the stack argument of Add / RemoveByStack
    info,           \* the info argument of Add
    hash,           \* the hash argument of GetStack
    res,            \* what the last Monitor read returned to the goroutine
    \* getStackTrace
    depth,          \* bytes of the text runtime.Stack has to write for the caller
    size,           \* the loop variable size
    n,              \* what runtime.Stack(buf, false) returned
    trace,          \* the string getStackTrace returned
    \* history
    added,          \* per category: Add calls completed, and the sum of their waits
    lastLabel       \* per instance: the argument of the last SetCategory since New

monitorVars == <<mu, longLocks, stackCache, categoryStats, keepRecords, defaultCategory>>
mutexVars   == <<mmu, monitor, lockedKey, category>>
captureVars == <<depth, size, n, trace>>
vars == <<mu, longLocks, stackCache, categoryStats, keepRecords, defaultCategory,
          mmu, monitor, lockedKey, category,
          pc, self, wait, over, stack, info, hash, res,
          depth, size, n, trace, added, lastLabel>>

\* config.Default().DefaultCategory, "GLOBAL"
GLOBAL == 1
\* the empty string, as a category
Empty == 0
\* every string a category can be
AllCategories == {Empty} \cup Categories
\* no SetCategory call yet, and no string returned yet
NoLabel == -1
NoTrace == [kind |-> "none"]

\* No getStackTrace call under way.
NoCapture == depth = 0 /\ size = 0 /\ n = 0 /\ trace = NoTrace
\* the threshold every MonitoredMutex is built with
threshold == 1

\* Number of Add calls begun so far: those completed plus those in progress or
\* still to be decided by a Lock under way.
RECURSIVE SumCount(_)
SumCount(cs) ==
    IF cs = {} THEN 0
    ELSE LET c == CHOOSE x \in cs : TRUE IN added[c].count + SumCount(cs \ {c})

InAdd(t) == pc[t] \in {"Lock_acquire", "Lock_key", "Lock_clear",
                       "Add_lock", "Add_longLocks", "Add_stackCache",
                       "Add_count", "Add_total", "Add_average", "Add_unlock"}

AddsBegun == SumCount(AllCategories) + Cardinality({t \in Threads : InAdd(t)})

\* NewMonitor, and no goroutine running yet.
InitMonitor ==
    /\ mu = NoThread
    /\ longLocks = EmptyMap
    /\ stackCache = EmptyMap
    /\ categoryStats = EmptyMap
    /\ pc = [t \in Threads |-> "idle"]
    /\ self = [t \in Threads |-> NoMutex]
    /\ wait = [t \in Threads |-> 0]
    /\ over = [t \in Threads |-> FALSE]
    /\ stack = [t \in Threads |-> NoStack]
    /\ info = [t \in Threads |-> NoInfo]
    /\ hash = [t \in Threads |-> 0]
    /\ res = [t \in Threads |-> NoResult]
    /\ added = [c \in AllCategories |-> [count |-> 0, wait |-> 0]]
    /\ lastLabel = [m \in Mutexes |-> NoLabel]

\* Spec: config.Default(), no MonitoredMutex in use.
Init ==
    /\ InitMonitor
    /\ NoCapture
    /\ keepRecords = FALSE
    /\ defaultCategory = GLOBAL
    /\ mmu = [m \in Mutexes |-> NoThread]
    /\ monitor = [m \in Mutexes |-> TRUE]
    /\ lockedKey = [m \in Mutexes |-> 0]
    /\ category = [m \in Mutexes |-> defaultCategory]

Goto(t, label) == pc' = [pc EXCEPT ![t] = label]

\* Variant: the methods run without taking Monitor.mu.
MuFree_unguarded == TRUE

\* sync.Mutex.Lock on Monitor.mu succeeds only while nobody holds it.
MuFree == mu = NoThread

\* ---------------------------------------------------------------- Monitor.Add
\* A direct call m.Add(stack, info), up to and including m.mu.Lock(): until the
\* mutex is acquired the call has touched nothing.
CallAdd(t) ==
    /\ pc[t] = "idle"
    /\ MuFree
    /\ AddsBegun < MaxAdds
    /\ mu' = t
    /\ \E s \in Stacks : stack' = [stack EXCEPT ![t] = s]
    /\ \E e \in LockInfo : info' = [info EXCEPT ![t] = e]
    /\ Goto(t, "Add_longLocks")
    /\ UNCHANGED <<longLocks, stackCache, categoryStats, keepRecords, defaultCategory,
                   mutexVars, self, wait, over, hash, res, added, lastLabel, captureVars>>

\* m.mu.Lock(), in the Add that MonitoredMutex.Lock calls
Add_lock(t) ==
    /\ pc[t] = "Add_lock"
    /\ MuFree
    /\ mu' = t
    /\ Goto(t, "Add_longLocks")
    /\ UNCHANGED <<longLocks, stackCache, categoryStats, keepRecords, defaultCategory,
                   mutexVars, self, wait, over, stack, info, hash, res, added, lastLabel, captureVars>>

\* Variant: the event is stored with the Stack field its caller gave it.
Add_longLocks_asGiven(t) ==
    /\ pc[t] = "Add_longLocks"
    /\ longLocks' = MapPut(longLocks, hashStack(stack[t]), info[t])
    /\ Goto(t, "Add_stackCache")
    /\ UNCHANGED <<mu, stackCache, categoryStats, keepRecords, defaultCategory,
                   mutexVars, self, wait, over, stack, info, hash, res, added,
                   lastLabel, captureVars>>

\* Variant: the record of an identity already present is kept, not overwritten.
Add_longLocks_ifAbsent(t) ==
    /\ pc[t] = "Add_longLocks"
    /\ info' = [info EXCEPT ![t].Stack = stack[t]]
    /\ longLocks' = IF hashStack(stack[t]) \in DOMAIN longLocks
                    THEN longLocks
                    ELSE MapPut(longLocks, hashStack(stack[t]), info'[t])
    /\ Goto(t, "Add_stackCache")
    /\ UNCHANGED <<mu, stackCache, categoryStats, keepRecords, defaultCategory,
                   mutexVars, self, wait, over, stack, hash, res, added, lastLabel, captureVars>>

\* h := hashStack(stack); info.Stack = stack; m.longLocks[h] = info
Add_longLocks(t) ==
    /\ pc[t] = "Add_longLocks"
    /\ info' = [info EXCEPT ![t].Stack = stack[t]]
    /\ longLocks' = MapPut(longLocks, hashStack(stack[t]), info'[t])
    /\ Goto(t, "Add_stackCache")
    /\ UNCHANGED <<mu, stackCache, categoryStats, keepRecords, defaultCategory,
                   mutexVars, self, wait, over, stack, hash, res, added, lastLabel, captureVars>>

\* Variant: the text is cached only when the identity has no entry yet.
Add_stackCache_ifAbsent(t) ==
    /\ pc[t] = "Add_stackCache"
    /\ stackCache' = IF hashStack(stack[t]) \in DOMAIN stackCache
                     THEN stackCache
                     ELSE MapPut(stackCache, hashStack(stack[t]), stack[t])
    /\ Goto(t, "Add_count")
    /\ UNCHANGED <<mu, longLocks, categoryStats, keepRecords, defaultCategory,
                   mutexVars, self, wait, over, stack, info, hash, res, added, lastLabel, captureVars>>

\* m.stackCache[h] = stack
Add_stackCache(t) ==
    /\ pc[t] = "Add_stackCache"
    /\ stackCache' = MapPut(stackCache, hashStack(stack[t]), stack[t])
    /\ Goto(t, "Add_count")
    /\ UNCHANGED <<mu, longLocks, categoryStats, keepRecords, defaultCategory,
                   mutexVars, self, wait, over, stack, info, hash, res, added, lastLabel, captureVars>>

\* Variant: the event that creates the entry is not counted.
Add_count_createOnly(t) ==
    /\ pc[t] = "Add_count"
    /\ LET c == info[t].Category
       IN categoryStats' = IF c \in DOMAIN categoryStats
                           THEN [categoryStats EXCEPT ![c].Count = @ + 1]
                           ELSE MapPut(categoryStats, c, ZeroStats)
    /\ Goto(t, "Add_total")
    /\ UNCHANGED <<mu, longLocks, stackCache, keepRecords, defaultCategory,
                   mutexVars, self, wait, over, stack, info, hash, res, added,
                   lastLabel, captureVars>>

\* stats, exists := m.categoryStats[info.Category]; if !exists { stats =
\* &CategoryStats{}; m.categoryStats[info.Category] = stats }; stats.Count++
Add_count(t) ==
    /\ pc[t] = "Add_count"
    /\ LET c == info[t].Category
           stats == IF c \in DOMAIN categoryStats THEN categoryStats[c] ELSE ZeroStats
       IN categoryStats' = MapPut(categoryStats, c, [stats EXCEPT !.Count = @ + 1])
    /\ Goto(t, "Add_total")
    /\ UNCHANGED <<mu, longLocks, stackCache, keepRecords, defaultCategory,
                   mutexVars, self, wait, over, stack, info, hash, res, added, lastLabel, captureVars>>

\* Variant: stats.TotalWait = info.Wait
Add_total_assign(t) ==
    /\ pc[t] = "Add_total"
    /\ categoryStats' = [categoryStats EXCEPT ![info[t].Category].TotalWait = info[t].Wait]
    /\ Goto(t, "Add_average")
    /\ UNCHANGED <<mu, longLocks, stackCache, keepRecords, defaultCategory,
                   mutexVars, self, wait, over, stack, info, hash, res, added, lastLabel, captureVars>>

\* stats.TotalWait += info.Wait
Add_total(t) ==
    /\ pc[t] = "Add_total"
    /\ categoryStats' = [categoryStats EXCEPT ![info[t].Category].TotalWait = @ + info[t].Wait]
    /\ Goto(t, "Add_average")
    /\ UNCHANGED <<mu, longLocks, stackCache, keepRecords, defaultCategory,
                   mutexVars, self, wait, over, stack, info, hash, res, added, lastLabel, captureVars>>

\* stats.AverageWait = stats.TotalWait / time.Duration(stats.Count)
Add_average(t) ==
    /\ pc[t] = "Add_average"
    /\ categoryStats' = [categoryStats EXCEPT ![info[t].Category].AverageWait =
                            categoryStats[info[t].Category].TotalWait
                                \div categoryStats[info[t].Category].Count]
    /\ Goto(t, "Add_unlock")
    /\ UNCHANGED <<mu, longLocks, stackCache, keepRecords, defaultCategory,
                   mutexVars, self, wait, over, stack, info, hash, res, added, lastLabel, captureVars>>

\* Variant: Add returns without m.mu.Unlock().
Add_unlock_keepsMu(t) ==
    /\ pc[t] = "Add_unlock"
    /\ added' = [added EXCEPT ![info[t].Category] =
                    [count |-> @.count + 1, wait |-> @.wait + info[t].Wait]]
    /\ stack' = [stack EXCEPT ![t] = NoStack]
    /\ info' = [info EXCEPT ![t] = NoInfo]
    /\ Goto(t, IF self[t] = NoMutex THEN "idle" ELSE "held")
    /\ UNCHANGED <<monitorVars, mutexVars, self, wait, over, hash, res, lastLabel, captureVars>>

\* defer m.mu.Unlock(), and the return: to the direct caller, or into Lock, whose
\* last statement the call is.
Add_unlock(t) ==
    /\ pc[t] = "Add_unlock"
    /\ mu' = NoThread
    /\ added' = [added EXCEPT ![info[t].Category] =
                    [count |-> @.count + 1, wait |-> @.wait + info[t].Wait]]
    /\ stack' = [stack EXCEPT ![t] = NoStack]
    /\ info' = [info EXCEPT ![t] = NoInfo]
    /\ Goto(t, IF self[t] = NoMutex THEN "idle" ELSE "held")
    /\ UNCHANGED <<longLocks, stackCache, categoryStats, keepRecords, defaultCategory,
                   mutexVars, self, wait, over, hash, res, lastLabel, captureVars>>

\* ------------------------------------------------------ Monitor.RemoveByStack
\* Variant: RemoveByStack runs without waiting for m.mu.
CallRemoveByStack_nolock(t) ==
    /\ pc[t] = "idle"
    /\ mu' = t
    /\ \E s \in Stacks : stack' = [stack EXCEPT ![t] = s]
    /\ Goto(t, "Remove_longLocks")
    /\ UNCHANGED <<longLocks, stackCache, categoryStats, keepRecords, defaultCategory,
                   mutexVars, self, wait, over, info, hash, res, added, lastLabel, captureVars>>

\* A direct call m.RemoveByStack(stack), up to and including m.mu.Lock().
CallRemoveByStack(t) ==
    /\ pc[t] = "idle"
    /\ MuFree
    /\ mu' = t
    /\ \E s \in Stacks : stack' = [stack EXCEPT ![t] = s]
    /\ Goto(t, "Remove_longLocks")
    /\ UNCHANGED <<longLocks, stackCache, categoryStats, keepRecords, defaultCategory,
                   mutexVars, self, wait, over, info, hash, res, added, lastLabel, captureVars>>

\* m.mu.Lock(), in the RemoveByStack that MonitoredMutex.Unlock calls
Remove_lock(t) ==
    /\ pc[t] = "Remove_lock"
    /\ MuFree
    /\ mu' = t
    /\ Goto(t, "Remove_longLocks")
    /\ UNCHANGED <<longLocks, stackCache, categoryStats, keepRecords, defaultCategory,
                   mutexVars, self, wait, over, stack, info, hash, res, added, lastLabel, captureVars>>

\* Variant: RemoveByStack deletes the cache entry only.
Remove_longLocks_skip(t) ==
    /\ pc[t] = "Remove_longLocks"
    /\ Goto(t, "Remove_stackCache")
    /\ UNCHANGED <<monitorVars, mutexVars, self, wait, over, stack, info, hash, res, added,
                   lastLabel, captureVars>>

\* h := hashStack(stack); delete(m.longLocks, h)
Remove_longLocks(t) ==
    /\ pc[t] = "Remove_longLocks"
    /\ longLocks' = MapDelete(longLocks, hashStack(stack[t]))
    /\ Goto(t, "Remove_stackCache")
    /\ UNCHANGED <<mu, stackCache, categoryStats, keepRecords, defaultCategory,
                   mutexVars, self, wait, over, stack, info, hash, res, added, lastLabel, captureVars>>

\* Variant: RemoveByStack forgets the stack cache.
Remove_stackCache_skip(t) ==
    /\ pc[t] = "Remove_stackCache"
    /\ Goto(t, "Remove_unlock")
    /\ UNCHANGED <<monitorVars, mutexVars, self, wait, over, stack, info, hash, res, added, lastLabel, captureVars>>

\* delete(m.stackCache, h)
Remove_stackCache(t) ==
    /\ pc[t] = "Remove_stackCache"
    /\ stackCache' = MapDelete(stackCache, hashStack(stack[t]))
    /\ Goto(t, "Remove_unlock")
    /\ UNCHANGED <<mu, longLocks, categoryStats, keepRecords, defaultCategory,
                   mutexVars, self, wait, over, stack, info, hash, res, added, lastLabel, captureVars>>

\* defer m.mu.Unlock(), and the return: to the direct caller, or into Unlock
Remove_unlock(t) ==
    /\ pc[t] = "Remove_unlock"
    /\ mu' = NoThread
    /\ stack' = [stack EXCEPT ![t] = NoStack]
    /\ Goto(t, IF self[t] = NoMutex THEN "idle" ELSE "Unlock_clear")
    /\ UNCHANGED <<longLocks, stackCache, categoryStats, keepRecords, defaultCategory,
                   mutexVars, self, wait, over, info, hash, res, added, lastLabel, captureVars>>

\* ----------------------------------------------------------- Monitor.GetStack
\* A direct call m.GetStack(hash), up to and including m.mu.Lock().
CallGetStack(t) ==
    /\ pc[t] = "idle"
    /\ MuFree
    /\ mu' = t
    /\ \E h \in Ids : hash' = [hash EXCEPT ![t] = h]
    /\ Goto(t, "GetStack_read")
    /\ UNCHANGED <<longLocks, stackCache, categoryStats, keepRecords, defaultCategory,
                   mutexVars, self, wait, over, stack, info, res, added, lastLabel, captureVars>>

\* m.mu.Lock(), in the GetStack that MonitoredMutex.Unlock calls
GetStack_lock(t) ==
    /\ pc[t] = "GetStack_lock"
    /\ MuFree
    /\ mu' = t
    /\ Goto(t, "GetStack_read")
    /\ UNCHANGED <<longLocks, stackCache, categoryStats, keepRecords, defaultCategory,
                   mutexVars, self, wait, over, stack, info, hash, res, added, lastLabel, captureVars>>

\* s, ok := m.stackCache[hash]
GetStack_read(t) ==
    /\ pc[t] = "GetStack_read"
    /\ res' = [res EXCEPT ![t] =
                  IF hash[t] \in DOMAIN stackCache
                  THEN [kind |-> "stack", hash |-> hash[t], s |-> stackCache[hash[t]], ok |-> TRUE]
                  ELSE [kind |-> "stack", hash |-> hash[t], s |-> NoStack, ok |-> FALSE]]
    /\ Goto(t, "GetStack_unlock")
    /\ UNCHANGED <<monitorVars, mutexVars, self, wait, over, stack, info, hash, added, lastLabel, captureVars>>

\* defer m.mu.Unlock(), and return s, ok: to the direct caller, whose use of them
\* is not followed any further, or into Unlock, at `if stack, ok := ...; ok`
GetStack_unlock(t) ==
    /\ pc[t] = "GetStack_unlock"
    /\ mu' = NoThread
    /\ hash' = [hash EXCEPT ![t] = 0]
    /\ res' = [res EXCEPT ![t] = NoResult]
    /\ stack' = [stack EXCEPT ![t] = IF self[t] # NoMutex /\ res[t].ok THEN res[t].s ELSE NoStack]
    /\ Goto(t, IF self[t] = NoMutex THEN "idle"
               ELSE IF res[t].ok THEN "Remove_lock" ELSE "Unlock_clear")
    /\ UNCHANGED <<longLocks, stackCache, categoryStats, keepRecords, defaultCategory,
                   mutexVars, self, wait, over, info, added, lastLabel, captureVars>>

\* ------------------------- Monitor.Snapshot / GetStackCache / GetCategoryStats
\* m.mu.Lock() of a direct call m.Snapshot()
CallSnapshot(t) ==
    /\ pc[t] = "idle"
    /\ MuFree
    /\ mu' = t
    /\ Goto(t, "Snapshot_copy")
    /\ UNCHANGED <<longLocks, stackCache, categoryStats, keepRecords, defaultCategory,
                   mutexVars, self, wait, over, stack, info, hash, res, added, lastLabel, captureVars>>

\* Variant: return m.longLocks, the Monitor's own map
Snapshot_copy_live(t) ==
    /\ pc[t] = "Snapshot_copy"
    /\ res' = [res EXCEPT ![t] = [kind |-> "snapshot", val |-> longLocks, fresh |-> FALSE]]
    /\ Goto(t, "Read_unlock")
    /\ UNCHANGED <<monitorVars, mutexVars, self, wait, over, stack, info, hash, added, lastLabel, captureVars>>

\* copyMap := make(...); for k, v := range m.longLocks { copyMap[k] = v }
\* (the whole loop runs inside the critical section); fresh: the map returned is
\* the one make created, not a map of the Monitor
Snapshot_copy(t) ==
    /\ pc[t] = "Snapshot_copy"
    /\ res' = [res EXCEPT ![t] = [kind |-> "snapshot", val |-> longLocks, fresh |-> TRUE]]
    /\ Goto(t, "Read_unlock")
    /\ UNCHANGED <<monitorVars, mutexVars, self, wait, over, stack, info, hash, added, lastLabel, captureVars>>

\* m.mu.Lock() of a direct call m.GetStackCache()
CallGetStackCache(t) ==
    /\ pc[t] = "idle"
    /\ MuFree
    /\ mu' = t
    /\ Goto(t, "GetStackCache_copy")
    /\ UNCHANGED <<longLocks, stackCache, categoryStats, keepRecords, defaultCategory,
                   mutexVars, self, wait, over, stack, info, hash, res, added, lastLabel, captureVars>>

\* copyCache := make(...); for k, v := range m.stackCache { copyCache[k] = v }
GetStackCache_copy(t) ==
    /\ pc[t] = "GetStackCache_copy"
    /\ res' = [res EXCEPT ![t] = [kind |-> "cache", val |-> stackCache, fresh |-> TRUE]]
    /\ Goto(t, "Read_unlock")
    /\ UNCHANGED <<monitorVars, mutexVars, self, wait, over, stack, info, hash, added, lastLabel, captureVars>>

\* m.mu.Lock() of a direct call m.GetCategoryStats()
CallGetCategoryStats(t) ==
    /\ pc[t] = "idle"
    /\ MuFree
    /\ mu' = t
    /\ Goto(t, "GetCategoryStats_copy")
    /\ UNCHANGED <<longLocks, stackCache, categoryStats, keepRecords, defaultCategory,
                   mutexVars, self, wait, over, stack, info, hash, res, added, lastLabel, captureVars>>

\* result := make(...); for cat, stats := range m.categoryStats { result[cat] = *stats }
GetCategoryStats_copy(t) ==
    /\ pc[t] = "GetCategoryStats_copy"
    /\ res' = [res EXCEPT ![t] = [kind |-> "stats", val |-> categoryStats, fresh |-> TRUE]]
    /\ Goto(t, "Read_unlock")
    /\ UNCHANGED <<monitorVars, mutexVars, self, wait, over, stack, info, hash, added, lastLabel, captureVars>>

\* defer m.mu.Unlock() of the three copying reads, and the return of the copy to
\* the caller, whose use of it is not followed any further
Read_unlock(t) ==
    /\ pc[t] = "Read_unlock"
    /\ mu' = NoThread
    /\ res' = [res EXCEPT ![t] = NoResult]
    /\ Goto(t, "idle")
    /\ UNCHANGED <<longLocks, stackCache, categoryStats, keepRecords, defaultCategory,
                   mutexVars, self, wait, over, stack, info, hash, added, lastLabel, captureVars>>

\* defer m.mu.Unlock() of the three copying reads, and the return of the copy to
\* a caller that keeps it: res[t] is the caller's variable from here on
Read_return(t) ==
    /\ pc[t] = "Read_unlock"
    /\ mu' = NoThread
    /\ Goto(t, "idle")
    /\ UNCHANGED <<longLocks, stackCache, categoryStats, keepRecords, defaultCategory,
                   mutexVars, self, wait, over, stack, info, hash, res, added,
                   lastLabel, captureVars>>

MapKinds == {"snapshot", "cache", "stats"}

\* The Monitor's map that a read of the kind copies.
MonitorMap(kind) ==
    CASE kind = "snapshot" -> longLocks
      [] kind = "cache"    -> stackCache
      [] kind = "stats"    -> categoryStats

\* The caller deletes a key of the map it was handed: delete(copy, k).  A Go map
\* is a reference: the write lands in the map object the reference denotes.
Caller_write(t) ==
    /\ pc[t] = "idle"
    /\ res[t].kind \in MapKinds
    /\ IF res[t].fresh
       THEN /\ \E k \in DOMAIN res[t].val :
                  res' = [res EXCEPT ![t].val = MapDelete(@, k)]
            /\ UNCHANGED <<longLocks, stackCache, categoryStats>>
       ELSE /\ \E k \in DOMAIN MonitorMap(res[t].kind) :
                  /\ longLocks' = IF res[t].kind = "snapshot"
                                  THEN MapDelete(longLocks, k) ELSE longLocks
                  /\ stackCache' = IF res[t].kind = "cache"
                                   THEN MapDelete(stackCache, k) ELSE stackCache
                  /\ categoryStats' = IF res[t].kind = "stats"
                                      THEN MapDelete(categoryStats, k) ELSE categoryStats
            /\ res' = res
    /\ UNCHANGED <<mu, keepRecords, defaultCategory, mutexVars, pc, self, wait, over,
                   stack, info, hash, added, lastLabel, captureVars>>

\* ---------------------------------------------------------- getStackTrace
\* runtime.Stack(buf, false) with len(buf) = sz: it writes the text, cut at the
\* end of the buffer, and returns the number of bytes written.
Stack(sz) == IF depth < sz THEN depth ELSE sz

\* Variant: n <= size
Fits_atMost(written, sz) == written <= sz

\* n < size
Fits(written, sz) == written < sz

\* SpecCapture: one call of getStackTrace, for a stack text of any of the lengths.
InitCapture ==
    /\ InitMonitor
    /\ keepRecords = FALSE
    /\ defaultCategory = GLOBAL
    /\ mmu = [m \in Mutexes |-> NoThread]
    /\ monitor = [m \in Mutexes |-> TRUE]
    /\ lockedKey = [m \in Mutexes |-> 0]
    /\ category = [m \in Mutexes |-> defaultCategory]
    /\ depth \in Depths
    /\ size = 0
    /\ n = 0
    /\ trace = NoTrace

\* size := 1024; buf := make([]byte, size); n := runtime.Stack(buf, false)
Capture_first ==
    /\ size = 0
    /\ trace = NoTrace
    /\ size' = BaseSize
    /\ n' = Stack(size')
    /\ UNCHANGED <<monitorVars, mutexVars, pc, self, wait, over, stack, info, hash, res,
                   depth, trace, added, lastLabel>>

\* if n < size { return string(buf[:n]) }
Capture_return ==
    /\ size # 0
    /\ trace = NoTrace
    /\ Fits(n, size)
    /\ trace' = Text(n)
    /\ UNCHANGED <<monitorVars, mutexVars, pc, self, wait, over, stack, info, hash, res,
                   depth, size, n, added, lastLabel>>

\* size *= 2; size <= 65536; buf := make([]byte, size); n := runtime.Stack(buf, false)
Capture_next ==
    /\ size # 0
    /\ trace = NoTrace
    /\ ~Fits(n, size)
    /\ 2 * size <= MaxSize
    /\ size' = 2 * size
    /\ n' = Stack(size')
    /\ UNCHANGED <<monitorVars, mutexVars, pc, self, wait, over, stack, info, hash, res,
                   depth, trace, added, lastLabel>>

\* size *= 2; the loop condition fails; return "stack trace too deep"
Capture_tooDeep ==
    /\ size # 0
    /\ trace = NoTrace
    /\ ~Fits(n, size)
    /\ 2 * size > MaxSize
    /\ size' = 2 * size
    /\ trace' = Sentinel
    /\ UNCHANGED <<monitorVars, mutexVars, pc, self, wait, over, stack, info, hash, res,
                   depth, n, added, lastLabel>>

NextCapture ==
    \/ Capture_first
    \/ Capture_return
    \/ Capture_next
    \/ Capture_tooDeep

SpecCapture == InitCapture /\ [][NextCapture]_vars

\* ------------------------------------------------------- monitored_mutex.go
\* What New and SetCategory leave in each instance before the goroutines start:
\* the example's labels, one per instance in turn.
categoryOf(m) == ((m - 1) % NumCategories) + 1

\* SpecLock: NewMonitor with either setting of KeepRecords, and the MonitoredMutex
\* values built; all report to the Monitor, or all but the last, which has none.
InitLock ==
    /\ InitMonitor
    /\ NoCapture
    /\ keepRecords \in BOOLEAN
    /\ defaultCategory = GLOBAL
    /\ mmu = [m \in Mutexes |-> NoThread]
    /\ \E k \in {NumMutexes - 1, NumMutexes} : monitor = [m \in Mutexes |-> m <= k]
    /\ lockedKey = [m \in Mutexes |-> 0]
    /\ category = [m \in Mutexes |-> categoryOf(m)]

\* SpecSetup: NewMonitor with either default category, the empty string or
\* config.Default()'s, and the instances declared but not built: each slot holds
\* the zero MonitoredMutex (var mu glockmon.MonitoredMutex).
InitSetup ==
    /\ InitMonitor
    /\ NoCapture
    /\ keepRecords = FALSE
    /\ defaultCategory \in {Empty, GLOBAL}
    /\ mmu = [m \in Mutexes |-> NoThread]
    /\ monitor = [m \in Mutexes |-> FALSE]
    /\ lockedKey = [m \in Mutexes |-> 0]
    /\ category = [m \in Mutexes |-> Empty]

\* No goroutine is inside Lock or Unlock of the instance, or holds it: New and
\* SetCategory are not synchronized and run while the instance has one owner.
Unused(m) == mmu[m] = NoThread /\ \A u \in Threads : self[u] # m

\* m = New(monitor, threshold), monitor being a *Monitor (mon) or nil: the
\* composite literal evaluates monitor.defaultCategory, a nil pointer dereference
\* when monitor is nil; the panic ends the call before any value is built.
New(t, m) ==
    /\ pc[t] = "idle"
    /\ Unused(m)
    /\ \E mon \in BOOLEAN :
          IF mon
          THEN /\ monitor' = [monitor EXCEPT ![m] = TRUE]
               /\ category' = [category EXCEPT ![m] = defaultCategory]
               /\ lockedKey' = [lockedKey EXCEPT ![m] = 0]
               /\ lastLabel' = [lastLabel EXCEPT ![m] = NoLabel]
               /\ pc' = pc
          ELSE /\ Goto(t, "panic")
               /\ UNCHANGED <<monitor, category, lockedKey, lastLabel>>
    /\ UNCHANGED <<monitorVars, mmu, self, wait, over, stack, info, hash, res,
                   added, captureVars>>

\* m.SetCategory(c): if category == "" { m.category = m.monitor.defaultCategory }
\* else { m.category = category }; the first branch dereferences m.monitor, and
\* panics when it is nil.
SetCategory(t, m) ==
    /\ pc[t] = "idle"
    /\ Unused(m)
    /\ \E c \in AllCategories :
          IF c = Empty /\ ~monitor[m]
          THEN /\ Goto(t, "panic")
               /\ UNCHANGED <<category, lastLabel>>
          ELSE /\ category' = [category EXCEPT ![m] = IF c = Empty THEN defaultCategory ELSE c]
               /\ lastLabel' = [lastLabel EXCEPT ![m] = c]
               /\ pc' = pc
    /\ UNCHANGED <<monitorVars, mmu, monitor, lockedKey, self, wait, over, stack, info,
                   hash, res, added, captureVars>>

\* What time.Since(start) may give: Lock does nothing with the wait but compare it
\* with the threshold and pass it on, so one duration below the threshold, the
\* threshold itself and one duration above it are all its cases.
LockWaits == {threshold - 1, threshold, threshold + 1}

\* Variant: wait >= m.threshold
IsLong_atLeast(m, w) == w >= threshold /\ monitor[m]

\* wait > m.threshold && m.monitor != nil
IsLong(m, w) == w > threshold /\ monitor[m]

\* A goroutine that holds no instrumented lock calls m.Lock(): start := time.Now()
CallLock(t) ==
    /\ pc[t] = "idle"
    /\ AddsBegun < MaxAdds
    /\ \E m \in Mutexes : self' = [self EXCEPT ![t] = m]
    /\ Goto(t, "Lock_acquire")
    /\ UNCHANGED <<monitorVars, mutexVars, wait, over, stack, info, hash, res, added, lastLabel, captureVars>>

\* Variant: Lock goes on whether or not it got m.mu.
Lock_acquire_noWait(t) ==
    /\ pc[t] = "Lock_acquire"
    /\ mmu' = [mmu EXCEPT ![self[t]] = IF @ = NoThread THEN t ELSE @]
    /\ \E w \in LockWaits :
          /\ wait' = [wait EXCEPT ![t] = w]
          /\ over' = [over EXCEPT ![t] = (w > threshold)]
          /\ IF IsLong(self[t], w)
             THEN /\ \E s \in Stacks : stack' = [stack EXCEPT ![t] = s]
                  /\ Goto(t, "Lock_key")
             ELSE /\ stack' = stack
                  /\ Goto(t, "Lock_clear")
    /\ UNCHANGED <<monitorVars, monitor, lockedKey, category, self, info, hash, res, added,
                   lastLabel, captureVars>>

\* m.mu.Lock() returns; wait := time.Since(start); the
\* test of the threshold; on the long branch stack := getStackTrace(), the text
\* of the call site the goroutine is at.
Lock_acquire(t) ==
    /\ pc[t] = "Lock_acquire"
    /\ mmu[self[t]] = NoThread
    /\ mmu' = [mmu EXCEPT ![self[t]] = t]
    /\ \E w \in LockWaits :
          /\ wait' = [wait EXCEPT ![t] = w]
          /\ over' = [over EXCEPT ![t] = (w > threshold)]
          /\ IF IsLong(self[t], w)
             THEN /\ \E s \in Stacks : stack' = [stack EXCEPT ![t] = s]
                  /\ Goto(t, "Lock_key")
             ELSE /\ stack' = stack
                  /\ Goto(t, "Lock_clear")
    /\ UNCHANGED <<monitorVars, monitor, lockedKey, category, self, info, hash, res, added, lastLabel, captureVars>>

\* Variant: Lock does not remember the key.
Lock_key_forgets(t) ==
    /\ pc[t] = "Lock_key"
    /\ info' = [info EXCEPT ![t] = [Wait |-> wait[t], Stack |-> stack[t],
                                    Category |-> category[self[t]]]]
    /\ wait' = [wait EXCEPT ![t] = 0]
    /\ Goto(t, "Add_lock")
    /\ UNCHANGED <<monitorVars, mutexVars, self, over, stack, hash, res, added, lastLabel, captureVars>>

\* key := hashStack(stack); m.lockedKey = key; and the arguments of m.monitor.Add
Lock_key(t) ==
    /\ pc[t] = "Lock_key"
    /\ lockedKey' = [lockedKey EXCEPT ![self[t]] = hashStack(stack[t])]
    /\ info' = [info EXCEPT ![t] = [Wait |-> wait[t], Stack |-> stack[t],
                                    Category |-> category[self[t]]]]
    /\ wait' = [wait EXCEPT ![t] = 0]
    /\ Goto(t, "Add_lock")
    /\ UNCHANGED <<monitorVars, mmu, monitor, category, self, over, stack, hash, res, added, lastLabel, captureVars>>

\* else { m.lockedKey = 0 }, and Lock returns
Lock_clear(t) ==
    /\ pc[t] = "Lock_clear"
    /\ lockedKey' = [lockedKey EXCEPT ![self[t]] = 0]
    /\ wait' = [wait EXCEPT ![t] = 0]
    /\ Goto(t, "held")
    /\ UNCHANGED <<monitorVars, mmu, monitor, category, self, over, stack, info, hash, res, added, lastLabel, captureVars>>

\* Variant: Unlock does not test m.lockedKey.
MustEvict_anyKey(m) == monitor[m] /\ ~keepRecords

\* Variant: Unlock evicts whatever KeepRecords says.
MustEvict_ignoresKeep(m) == monitor[m] /\ lockedKey[m] # 0

\* m.monitor != nil && !m.monitor.keepRecords && m.lockedKey != 0
MustEvict(m) == monitor[m] /\ ~keepRecords /\ lockedKey[m] # 0

\* Variant: Unlock releases m.mu first and evicts after.
Unlock_check_releasesFirst(t) ==
    /\ pc[t] = "held"
    /\ mmu' = [mmu EXCEPT ![self[t]] = NoThread]
    /\ IF MustEvict(self[t])
       THEN /\ hash' = [hash EXCEPT ![t] = lockedKey[self[t]]]
            /\ Goto(t, "GetStack_lock")
       ELSE /\ hash' = hash
            /\ Goto(t, "Unlock_release")
    /\ UNCHANGED <<monitorVars, monitor, lockedKey, category, self, wait, over, stack, info,
                   res, added, lastLabel, captureVars>>

\* The holder calls m.Unlock(): the test that opens it, and the argument of GetStack
Unlock_check(t) ==
    /\ pc[t] = "held"
    /\ IF MustEvict(self[t])
       THEN /\ hash' = [hash EXCEPT ![t] = lockedKey[self[t]]]
            /\ Goto(t, "GetStack_lock")
       ELSE /\ hash' = hash
            /\ Goto(t, "Unlock_release")
    /\ UNCHANGED <<monitorVars, mutexVars, self, wait, over, stack, info, res, added, lastLabel, captureVars>>

\* m.lockedKey = 0
Unlock_clear(t) ==
    /\ pc[t] = "Unlock_clear"
    /\ lockedKey' = [lockedKey EXCEPT ![self[t]] = 0]
    /\ Goto(t, "Unlock_release")
    /\ UNCHANGED <<monitorVars, mmu, monitor, category, self, wait, over, stack, info, hash, res, added, lastLabel, captureVars>>

\* m.mu.Unlock(), and Unlock returns
Unlock_release(t) ==
    /\ pc[t] = "Unlock_release"
    /\ mmu' = [mmu EXCEPT ![self[t]] = NoThread]
    /\ self' = [self EXCEPT ![t] = NoMutex]
    /\ over' = [over EXCEPT ![t] = FALSE]
    /\ Goto(t, "idle")
    /\ UNCHANGED <<monitorVars, monitor, lockedKey, category, wait, stack, info, hash, res, added, lastLabel, captureVars>>

\* The steps of the Monitor's methods once the caller is inside them.
MonitorStep(t) ==
    \/ Add_longLocks(t)
    \/ Add_stackCache(t)
    \/ Add_count(t)
    \/ Add_total(t)
    \/ Add_average(t)
    \/ Add_unlock(t)
    \/ Remove_longLocks(t)
    \/ Remove_stackCache(t)
    \/ Remove_unlock(t)
    \/ GetStack_read(t)
    \/ GetStack_unlock(t)

Next ==
    \E t \in Threads :
        \/ CallAdd(t)
        \/ CallRemoveByStack(t)
        \/ CallGetStack(t)
        \/ CallSnapshot(t)
        \/ CallGetStackCache(t)
        \/ CallGetCategoryStats(t)
        \/ Snapshot_copy(t)
        \/ GetStackCache_copy(t)
        \/ GetCategoryStats_copy(t)
        \/ Read_unlock(t)
        \/ MonitorStep(t)

Spec == Init /\ [][Next]_vars

\* SpecCopy: the goroutines of Spec, keeping the maps the reads return and
\* writing to them.
NextCopy ==
    \E t \in Threads :
        \/ CallAdd(t)
        \/ CallRemoveByStack(t)
        \/ CallGetStack(t)
        \/ CallSnapshot(t)
        \/ CallGetStackCache(t)
        \/ CallGetCategoryStats(t)
        \/ Snapshot_copy(t)
        \/ GetStackCache_copy(t)
        \/ GetCategoryStats_copy(t)
        \/ Read_return(t)
        \/ Caller_write(t)
        \/ MonitorStep(t)

SpecCopy == Init /\ [][NextCopy]_vars

NextLock ==
    \E t \in Threads :
        \/ CallLock(t)
        \/ Lock_acquire(t)
        \/ Lock_key(t)
        \/ Lock_clear(t)
        \/ Add_lock(t)
        \/ Unlock_check(t)
        \/ GetStack_lock(t)
        \/ Remove_lock(t)
        \/ Unlock_clear(t)
        \/ Unlock_release(t)
        \/ MonitorStep(t)

SpecLock == InitLock /\ [][NextLock]_vars

\* An unrecovered panic ends the program.
NoPanic == \A t \in Threads : pc[t] # "panic"

\* SpecSetup: goroutines that build and label the instances as well as lock them.
NextSetup ==
    /\ NoPanic
    /\ \E t \in Threads :
          \/ \E m \in Mutexes : New(t, m)
          \/ \E m \in Mutexes : SetCategory(t, m)
          \/ CallLock(t)
          \/ Lock_acquire(t)
          \/ Lock_key(t)
          \/ Lock_clear(t)
          \/ Add_lock(t)
          \/ Unlock_check(t)
          \/ GetStack_lock(t)
          \/ Remove_lock(t)
          \/ Unlock_clear(t)
          \/ Unlock_release(t)
          \/ MonitorStep(t)

SpecSetup == InitSetup /\ [][NextSetup]_vars

\* The statements a goroutine runs on its own, which the scheduler lets it take
\* sooner or later, the call of Unlock by a holder among them; calling Lock is
\* left to the goroutine.
Proceed(t) ==
    \/ Lock_key(t)
    \/ Lock_clear(t)
    \/ Unlock_check(t)
    \/ Unlock_clear(t)
    \/ Unlock_release(t)
    \/ MonitorStep(t)

\* sync.Mutex.Lock: a waiter is not passed over for ever (the mutex hands over to
\* the longest waiter once it has waited 1ms, its starvation mode).
Acquire(t) ==
    \/ Lock_acquire(t)
    \/ Add_lock(t)
    \/ GetStack_lock(t)
    \/ Remove_lock(t)

FairSpecLock ==
    /\ InitLock
    /\ [][NextLock]_vars
    /\ \A t \in Threads : WF_vars(Proceed(t)) /\ SF_vars(Acquire(t))

\* =========================================================================
\* Properties of the Monitor under direct calls (Spec)
\* =========================================================================
AddBody == {"Add_longLocks", "Add_stackCache", "Add_count",
            "Add_total", "Add_average", "Add_unlock"}
RemoveBody == {"Remove_longLocks", "Remove_stackCache", "Remove_unlock"}

\* The step is taken by goroutine t.
StepOf(t) == pc'[t] # pc[t]

\* Outside Add's critical section the entry of every category holds the number of
\* Add calls made with it and the sum of their waits (no entry when there was none).
StatsMatchAdds ==
    mu = NoThread =>
        \A c \in Categories :
            IF added[c].count = 0
            THEN c \notin DOMAIN categoryStats
            ELSE /\ c \in DOMAIN categoryStats
                 /\ categoryStats[c].Count = added[c].count
                 /\ categoryStats[c].TotalWait = added[c].wait

\* No step lowers Count or TotalWait or drops an entry.
StatsNeverDecrease ==
    \A c \in DOMAIN categoryStats :
        /\ c \in DOMAIN categoryStats'
        /\ categoryStats'[c].Count >= categoryStats[c].Count
        /\ categoryStats'[c].TotalWait >= categoryStats[c].TotalWait

\* Only the statements of Add change the statistics; RemoveByStack never does.
OnlyAddChangesStats ==
    (\A t \in Threads : ~(pc[t] \in AddBody /\ StepOf(t))) => categoryStats' = categoryStats

\* C1: after any sequence of Add and RemoveByStack calls, each category's Count is
\* the number of Add calls made with that category and its TotalWait the sum of
\* their waits; neither ever decreases, and RemoveByStack never changes them.
C1_StatsCountEveryAdd ==
    /\ []StatsMatchAdds
    /\ [][StatsNeverDecrease /\ OnlyAddChangesStats]_vars

\* C1 witness: two Adds of one category (waits 1 and 2) counted, and every record
\* evicted since.
C1_Witness ==
    /\ mu = NoThread
    /\ longLocks = EmptyMap
    /\ \E c \in DOMAIN categoryStats :
          categoryStats[c].Count = 2 /\ categoryStats[c].TotalWait = 3

\* C2: in every copy GetCategoryStats hands out, each category's AverageWait is
\* its TotalWait divided by its Count, by integer division (and Count is not 0).
C2_AverageIsTotalOverCount ==
    \A t \in Threads :
        res[t].kind = "stats" =>
            \A c \in DOMAIN res[t].val :
                /\ res[t].val[c].Count >= 1
                /\ res[t].val[c].AverageWait
                       = res[t].val[c].TotalWait \div res[t].val[c].Count

\* C2 witness: a copy in which the division is inexact (3 over 2 gives 1).
C2_Witness ==
    \E t \in Threads :
        /\ res[t].kind = "stats"
        /\ \E c \in DOMAIN res[t].val :
              /\ res[t].val[c].Count = 2
              /\ res[t].val[c].TotalWait = 3
              /\ res[t].val[c].AverageWait = 1

\* The entries of map m under every key but h are the same after the step.
SameExcept(m, mNext, h) ==
    /\ (DOMAIN m) \ {h} = (DOMAIN mNext) \ {h}
    /\ \A k \in (DOMAIN m) \ {h} : mNext[k] = m[k]

\* C3: RemoveByStack(s) leaves no record and no cache entry under hash(s), leaves
\* the records and cache entries of every other identity as they were, never
\* touches the statistics, and changes nothing at all when hash(s) is absent.
C3_RemoveByStackFrame ==
    [][\A t \in Threads :
          (pc[t] \in RemoveBody /\ StepOf(t)) =>
              LET h == hashStack(stack[t]) IN
              /\ categoryStats' = categoryStats
              /\ SameExcept(longLocks, longLocks', h)
              /\ SameExcept(stackCache, stackCache', h)
              /\ pc[t] = "Remove_unlock" =>
                    /\ h \notin DOMAIN longLocks /\ h \notin DOMAIN stackCache
                    /\ longLocks' = longLocks /\ stackCache' = stackCache
              /\ (h \notin DOMAIN longLocks /\ h \notin DOMAIN stackCache) =>
                    (longLocks' = longLocks /\ stackCache' = stackCache)]_vars

\* C3 witness: a RemoveByStack that has deleted the record of its identity and is
\* about to delete the cache entry, while another identity keeps its record and
\* the statistics hold two reports.
C3_Witness ==
    \E t \in Threads :
        LET h == hashStack(stack[t]) IN
        /\ pc[t] = "Remove_stackCache"
        /\ h \notin DOMAIN longLocks
        /\ h \in DOMAIN stackCache
        /\ \E k \in DOMAIN longLocks : k # h
        /\ SumCount(Categories) = 2

\* What GetStack returns is the cache entry of the hash asked for, or absence.
GetStackReadsCache ==
    \A t \in Threads :
        res[t].kind = "stack" =>
            /\ res[t].ok = (res[t].hash \in DOMAIN stackCache)
            /\ res[t].ok => res[t].s = stackCache[res[t].hash]
            /\ ~res[t].ok => res[t].s = NoStack

\* When Add(s, e) returns, the cache holds s under hash(s).
AddCachesStack ==
    \A t \in Threads : pc[t] = "Add_unlock" => 
        /\ hashStack(stack[t]) \in DOMAIN stackCache
        /\ stackCache[hashStack(stack[t])] = stack[t]

\* C4 as stated: the text cached under an identity stays until a RemoveByStack of
\* that same text, whatever Add calls with other texts happen.
C4_Original ==
    [][\A h \in DOMAIN stackCache :
          (\A t \in Threads : ~(/\ pc[t] = "Remove_stackCache" /\ StepOf(t)
                                /\ stack[t] = stackCache[h]))
          => (h \in DOMAIN stackCache' /\ stackCache'[h] = stackCache[h])]_vars

\* C4, amended: Add(s, e) leaves s cached under hash(s), GetStack returns the cache
\* entry, and that entry stays as it is until a RemoveByStack or an Add of a text
\* with the same hash (s itself or a text colliding with it); calls for texts of
\* other hashes never change it.
C4_StackCachedUntilSameHash ==
    /\ [](GetStackReadsCache /\ AddCachesStack)
    /\ [][\A h \in DOMAIN stackCache :
             (\A t \in Threads : ~(/\ pc[t] \in {"Remove_stackCache", "Add_stackCache"}
                                   /\ StepOf(t)
                                   /\ hashStack(stack[t]) = h))
             => (h \in DOMAIN stackCache' /\ stackCache'[h] = stackCache[h])]_vars

\* C4 witness: GetStack finds text 2 under its hash while another identity is
\* cached as well.
C4_Witness ==
    \E t \in Threads :
        /\ pc[t] = "GetStack_unlock"
        /\ res[t].ok
        /\ res[t].s = 2
        /\ res[t].hash = hashStack(2)
        /\ \E k \in DOMAIN stackCache : k # res[t].hash

\* The statements at which an operation reads or first writes the maps: what it
\* observes is the state in which it takes them.
ObservePoints == {"Add_longLocks", "Remove_longLocks", "GetStack_read",
                  "Snapshot_copy", "GetStackCache_copy", "GetCategoryStats_copy"}

\* The goroutine is inside the critical section of a method.
InCritical(t) == pc[t] \in ObservePoints \cup AddBody \cup RemoveBody
                           \cup {"GetStack_unlock", "Read_unlock"}

\* Every Add and RemoveByStack so far is applied whole: records and cache entries
\* pair up, and the statistics count exactly the Adds that have returned.
WholeOperations ==
    /\ DOMAIN longLocks = DOMAIN stackCache
    /\ \A c \in Categories :
          IF added[c].count = 0
          THEN c \notin DOMAIN categoryStats
          ELSE /\ c \in DOMAIN categoryStats
               /\ categoryStats[c] = [Count |-> added[c].count,
                                      TotalWait |-> added[c].wait,
                                      AverageWait |-> added[c].wait \div added[c].count]

\* A record goes away only by the delete of a RemoveByStack for its identity.
RecordRemovedOnlyByRemove ==
    \A h \in DOMAIN longLocks :
        h \notin DOMAIN longLocks' =>
            \E t \in Threads : /\ pc[t] = "Remove_longLocks" /\ StepOf(t)
                               /\ hashStack(stack[t]) = h

\* C12: the operations of the Monitor take effect one at a time, in the order of
\* their critical sections: the record of hash(s) is there when Add(s, e) returns
\* and leaves only by a RemoveByStack of that identity, a Snapshot returns the
\* records as they are while it holds the mutex (so one invoked after the Add
\* has it unless such a RemoveByStack came between), and every operation finds
\* the effects of all earlier Adds and RemoveByStacks whole.
C12_Linearizable ==
    /\ [](\A t, u \in Threads : (InCritical(t) /\ InCritical(u)) => t = u)
    /\ [](\A t \in Threads : pc[t] \in ObservePoints => WholeOperations)
    /\ [](\A t \in Threads :
             pc[t] = "Add_unlock" => hashStack(stack[t]) \in DOMAIN longLocks)
    /\ [](\A t \in Threads :
             (pc[t] = "Read_unlock" /\ res[t].kind = "snapshot") => res[t].val = longLocks)
    /\ [][RecordRemovedOnlyByRemove]_vars

\* C12 witness: after two Adds have returned and a RemoveByStack has taken the
\* record of one, a Snapshot is returning the other, while the second goroutine
\* is idle.
C12_Witness ==
    \E t \in Threads :
        /\ pc[t] = "Read_unlock"
        /\ res[t].kind = "snapshot"
        /\ SumCount(Categories) = 2
        /\ \A c \in Categories : added[c].count = 1
        /\ DOMAIN res[t].val = {1}
        /\ DOMAIN stackCache = {1}
        /\ \A u \in Threads \ {t} : pc[u] = "idle"

\* A goroutine is between the two map writes of Add (m.longLocks[h] = info done,
\* m.stackCache[h] = stack to come) or of RemoveByStack.
BetweenWrites == \E t \in Threads : pc[t] \in {"Add_stackCache", "Remove_stackCache"}

\* The identities with a record are those with a cache entry.
PairedMaps == DOMAIN longLocks = DOMAIN stackCache

\* C16: the identities that have a record are the identities that have a stack
\* cache entry, in every state but those inside the critical section of an Add or
\* a RemoveByStack between its two map writes, which no operation can observe;
\* the key sets change only by those writes, each operation making both.
C16_RecordsAndCachePaired ==
    /\ [](~BetweenWrites => PairedMaps)
    /\ [](\A t \in Threads : pc[t] \in ObservePoints => PairedMaps)
    /\ [][(DOMAIN longLocks' # DOMAIN longLocks \/ DOMAIN stackCache' # DOMAIN stackCache)
            => \E t \in Threads :
                   /\ StepOf(t)
                   /\ pc[t] \in {"Add_longLocks", "Add_stackCache",
                                  "Remove_longLocks", "Remove_stackCache"}
                   /\ pc'[t] \in {"Add_count", "Remove_unlock"} => PairedMaps']_vars

\* C16 witness: a RemoveByStack has made both deletes for identity 1 while
\* identity 0 keeps its record and its cache entry.
C16_Witness ==
    \E t \in Threads :
        /\ pc[t] = "Remove_unlock"
        /\ hashStack(stack[t]) = 1
        /\ DOMAIN longLocks = {0}
        /\ DOMAIN stackCache = {0}
        /\ SumCount(Categories) = 2

\* Every record carries the text cached under its identity, and that text hashes
\* to the identity.
RecordsMatchCache ==
    \A h \in DOMAIN longLocks :
        /\ h \in DOMAIN stackCache
        /\ longLocks[h].Stack = stackCache[h]
        /\ hashStack(stackCache[h]) = h

\* C20: for each identity with a record, the record's Stack field is the text the
\* stack cache holds under that identity, and the hash of that text is the
\* identity (whatever Stack field the event came with); in every state but those
\* inside Add's critical section between its two map writes, which no operation
\* can observe.
C20_RecordStackIsCachedText ==
    /\ []((\A t \in Threads : pc[t] # "Add_stackCache") => RecordsMatchCache)
    /\ [](\A t \in Threads : pc[t] \in ObservePoints => RecordsMatchCache)
    /\ [](\A h \in DOMAIN stackCache : hashStack(stackCache[h]) = h)

\* C20 witness: the record and the cache entry of identity 1, first made for
\* text 2 or left by an earlier Add, now both carry text 3, by an Add that is
\* returning, while identity 0 has its own pair.
C20_Witness ==
    \E t \in Threads :
        /\ pc[t] = "Add_unlock"
        /\ stack[t] = 3
        /\ longLocks[hashStack(3)].Stack = 3
        /\ stackCache[hashStack(3)] = 3
        /\ 0 \in DOMAIN longLocks
        /\ longLocks[0].Stack = 1

\* A goroutine is inside Add after m.longLocks[h] = info and before the entry of
\* info.Category is looked up or created.
BeforeStats == \E t \in Threads : pc[t] \in {"Add_stackCache", "Add_count"}

\* Every category on a record has its statistics entry.
RecordCategoriesCounted ==
    \A h \in DOMAIN longLocks : longLocks[h].Category \in DOMAIN categoryStats

\* C21: every statistics entry has Count >= 1 (an entry is created by the Add that
\* counts its first event, so the division that gives AverageWait never has a
\* zero divisor), and every category on a current record has an entry, in every
\* state but those inside Add's critical section between the write of the record
\* and the creation of the entry, which no operation can observe.
C21_StatsEntriesCounted ==
    /\ \A c \in DOMAIN categoryStats : categoryStats[c].Count >= 1
    /\ \A t \in Threads :
          pc[t] = "Add_average" => categoryStats[info[t].Category].Count >= 1
    /\ ~BeforeStats => RecordCategoriesCounted
    /\ \A t \in Threads : pc[t] \in ObservePoints => RecordCategoriesCounted

\* C21 witness: both categories have an entry; the only record left carries one
\* of them, the record that carried the other being overwritten or evicted.
C21_Witness ==
    /\ mu = NoThread
    /\ DOMAIN categoryStats = Categories
    /\ Cardinality(DOMAIN longLocks) = 1
    /\ \E c \in Categories : \A h \in DOMAIN longLocks : longLocks[h].Category # c

\* =========================================================================
\* Properties of MonitoredMutex and its Monitor (SpecLock)
\* =========================================================================
\* Every Lock call has been matched by a completed Unlock.
AllUnlocked == \A t \in Threads : pc[t] = "idle"

\* The goroutine holds its instance: Lock has returned, Unlock has not begun.
Holds(t) == pc[t] = "held"

\* The Lock by which t holds its instance reported to the Monitor.
Reported(t) == over[t] /\ monitor[self[t]]

\* C5: with KeepRecords off, whenever every instrumented lock is unlocked the
\* records and the stack cache are empty, and the statistics still count every
\* report made.
C5_Original ==
    (~keepRecords /\ AllUnlocked) =>
        /\ longLocks = EmptyMap
        /\ stackCache = EmptyMap
        /\ StatsMatchAdds

\* C6 as stated: with KeepRecords off, while a goroutine holds an instance by a
\* Lock that reported, the identity that Lock reported has a record.
C6_Original ==
    ~keepRecords =>
        \A t \in Threads :
            (Holds(t) /\ Reported(t)) => lockedKey[self[t]] \in DOMAIN longLocks

\* The record of identity h is taken away only by the RemoveByStack of an Unlock
\* whose instance remembers h.
EvictedOnlyByUnlockOf(h) ==
    \E t \in Threads :
        /\ pc[t] = "Remove_longLocks" /\ StepOf(t)
        /\ self[t] # NoMutex
        /\ hashStack(stack[t]) = h
        /\ lockedKey[self[t]] = h
        /\ mmu[self[t]] = t
        /\ ~keepRecords

\* C6, amended: the record of the identity a Lock reported is there when that Lock
\* returns, and a record is destroyed only by the Unlock of an instance whose
\* remembered identity is the record's: the instance that reported it, or any
\* other instance whose stack has the same hash, whose Unlock evicts it while the
\* first still holds its lock.
C6_RecordUntilUnlockOfSameIdentity ==
    /\ [](\A t \in Threads :
             (pc[t] = "Add_unlock" /\ self[t] # NoMutex) =>
                 /\ lockedKey[self[t]] = hashStack(stack[t])
                 /\ lockedKey[self[t]] \in DOMAIN longLocks)
    /\ [][\A h \in DOMAIN longLocks :
             h \notin DOMAIN longLocks' => EvictedOnlyByUnlockOf(h)]_vars

\* C6 witness: two goroutines hold two instances whose reports had the same
\* identity; the Unlock of one has evicted the record while the other still holds.
C6_Witness ==
    \E t1, t2 \in Threads :
        /\ t1 # t2
        /\ ~keepRecords
        /\ Holds(t1) /\ Reported(t1)
        /\ pc[t2] = "Remove_stackCache"
        /\ lockedKey[self[t2]] = lockedKey[self[t1]]
        /\ lockedKey[self[t1]] \notin DOMAIN longLocks

\* The statements of Lock and Unlock that a goroutine runs when the measured wait
\* did not exceed the threshold.
ShortPath == {"Lock_clear", "held", "Unlock_release", "idle"}

RecordsChangeByOwnIdentity ==
    \A h \in Ids :
        (\A t \in Threads : ~(/\ pc[t] \in {"Add_longLocks", "Remove_longLocks"}
                              /\ StepOf(t)
                              /\ hashStack(stack[t]) = h))
        => /\ (h \in DOMAIN longLocks) = (h \in DOMAIN longLocks')
           /\ h \in DOMAIN longLocks => longLocks'[h] = longLocks[h]

\* C8: the Monitor holds one record per identity, which is the event of the latest
\* Add for that identity (the earlier one is overwritten whole), while every Add
\* added one to the Count of its category; instances whose stacks have the same
\* identity share the record.
C8_LatestEventWins ==
    /\ [](\A t \in Threads :
             pc[t] = "Add_unlock" =>
                 LET h == hashStack(stack[t]) IN
                 /\ h \in DOMAIN longLocks
                 /\ longLocks[h] = [Wait |-> info[t].Wait, Stack |-> stack[t],
                                    Category |-> info[t].Category]
                 /\ categoryStats[info[t].Category].Count
                        = added[info[t].Category].count + 1)
    /\ [][RecordsChangeByOwnIdentity]_vars

\* C8 witness: two instances with different categories reported the same
\* identity; one record is there, it is the later event, and both categories
\* count one report.
C8_Witness ==
    \E t1, t2 \in Threads :
        /\ t1 # t2
        /\ Holds(t1) /\ Reported(t1)
        /\ pc[t2] = "Add_unlock"
        /\ category[self[t1]] # category[self[t2]]
        /\ hashStack(stack[t2]) = lockedKey[self[t1]]
        /\ DOMAIN longLocks = {lockedKey[self[t1]]}
        /\ longLocks[lockedKey[self[t1]]].Category = category[self[t2]]
        /\ categoryStats[category[self[t1]]].Count = 1
        /\ categoryStats[category[self[t2]]].Count = 1

\* C9: with KeepRecords on, no step of any Lock or Unlock removes a record or a
\* cache entry (Unlock never calls GetStack or RemoveByStack): the identities in
\* the records and in the cache only grow.
C9_KeepRecordsNeverEvicts ==
    /\ [](keepRecords => \A t \in Threads :
             pc[t] \notin {"GetStack_lock", "GetStack_read", "GetStack_unlock",
                            "Remove_lock", "Remove_longLocks", "Remove_stackCache",
                            "Remove_unlock", "Unlock_clear"})
    /\ [][keepRecords =>
             /\ DOMAIN longLocks \subseteq DOMAIN longLocks'
             /\ DOMAIN stackCache \subseteq DOMAIN stackCache']_vars

\* C9 witness: KeepRecords on, every lock unlocked again, and the record of a
\* report with a non-zero identity is still there.
C9_Witness ==
    /\ keepRecords
    /\ AllUnlocked
    /\ \E h \in DOMAIN longLocks : h # 0 /\ h \in DOMAIN stackCache

\* C15: the Unlock that follows a Lock whose wait did not exceed the threshold
\* only releases the primitive lock: it goes from the test straight to
\* m.mu.Unlock(), never takes the Monitor's mutex, and leaves records, stack
\* cache and statistics as they are, whatever records other instances have
\* reported.
C15_UnlockAfterShortLockPassesThrough ==
    /\ [](\A t \in Threads :
             (self[t] # NoMutex /\ ~over[t]) =>
                 pc[t] \in {"Lock_acquire", "Lock_clear", "held", "Unlock_release"})
    /\ [][\A t \in Threads :
             (StepOf(t) /\ ~over[t] /\ pc[t] \in {"held", "Unlock_release"})
             => /\ <<longLocks, stackCache, categoryStats, mu, lockedKey>>'
                       = <<longLocks, stackCache, categoryStats, mu, lockedKey>>
                /\ pc[t] = "held" => pc'[t] = "Unlock_release"
                /\ pc[t] = "Unlock_release" =>
                       (pc'[t] = "idle" /\ mmu'[self[t]] = NoThread)]_vars

\* C15 witness: KeepRecords off; a goroutine is about to release an instance it
\* holds by a short Lock while another instance, held by a Lock that reported,
\* has its record under identity 0, the value of the first one's lockedKey.
C15_Witness ==
    \E t, u \in Threads :
        /\ ~keepRecords
        /\ pc[t] = "Unlock_release" /\ ~over[t] /\ monitor[self[t]]
        /\ Holds(u) /\ Reported(u)
        /\ lockedKey[self[u]] = lockedKey[self[t]]
        /\ lockedKey[self[u]] \in DOMAIN longLocks

\* The statements of Unlock's eviction: GetStack, RemoveByStack, m.lockedKey = 0.
EvictionBody == {"GetStack_lock", "GetStack_read", "GetStack_unlock", "Remove_lock",
                 "Remove_longLocks", "Remove_stackCache", "Remove_unlock", "Unlock_clear"}

KeyAccess == {"Lock_key", "Lock_clear", "held", "Unlock_clear"}

\* C19: every statement that reads or writes an instance's lockedKey is run by
\* the goroutine holding that instance's primitive lock; lockedKey changes by no
\* other step; and no two goroutines are at such statements of one instance at
\* the same time.
C19_LockedKeyOwnedByHolder ==
    /\ [](\A t \in Threads : pc[t] \in KeyAccess => mmu[self[t]] = t)
    /\ [](\A t, u \in Threads :
             (pc[t] \in KeyAccess /\ pc[u] \in KeyAccess /\ self[t] = self[u]) => t = u)
    /\ [][\A m \in Mutexes :
             lockedKey'[m] # lockedKey[m] =>
                 \E t \in Threads :
                     /\ StepOf(t) /\ self[t] = m /\ mmu[m] = t
                     /\ pc[t] \in {"Lock_key", "Lock_clear", "Unlock_clear"}]_vars

\* C19 witness: a goroutine is about to clear the lockedKey its Lock wrote,
\* holding the primitive lock, while another waits in Lock for the same instance.
C19_Witness ==
    \E t, u \in Threads :
        /\ t # u
        /\ self[u] = self[t]
        /\ pc[t] = "Unlock_clear"
        /\ lockedKey[self[t]] # 0
        /\ pc[u] = "Lock_acquire"

\* =========================================================================
\* Progress of the lock protocol (FairSpecLock)
\* =========================================================================
UnlockBody == {"GetStack_lock", "GetStack_read", "GetStack_unlock", "Remove_lock",
               "Remove_longLocks", "Remove_stackCache", "Remove_unlock",
               "Unlock_clear", "Unlock_release"}

\* The goroutine waits for a mutex.
Waiting(t) == pc[t] \in {"Lock_acquire", "Add_lock", "GetStack_lock", "Remove_lock"}

\* C10: the instrumentation never blocks the lock protocol: when holders go on to
\* call Unlock, every Lock call returns; an Unlock, once begun, releases the
\* primitive lock whether its eviction found a stack or not; and no goroutine
\* waits for a mutex while it holds the Monitor's.
C10_LockProtocolProgress ==
    /\ \A t \in Threads : (pc[t] = "Lock_acquire") ~> (pc[t] = "held")
    /\ \A t \in Threads :
          (pc[t] \in UnlockBody) ~> (pc[t] = "idle" /\ \A m \in Mutexes : mmu[m] # t)
    /\ [](\A t \in Threads : Waiting(t) => mu # t)

\* C10 witness: a goroutine waits in Lock for an instance whose holder is in the
\* eviction step of its Unlock.
C10_Witness ==
    \E t1, t2 \in Threads :
        /\ pc[t1] = "Lock_acquire"
        /\ mmu[self[t1]] = t2
        /\ pc[t2] \in {"GetStack_lock", "Remove_lock", "Remove_longLocks"}

\* =========================================================================
\* Properties of the maps the reads return (SpecCopy)
\* =========================================================================
\* The goroutine has been handed a map by a read that has returned.
Returned(t) == res[t].kind \in MapKinds /\ pc[t] \notin {"Read_unlock"}

\* What the caller sees in the map it holds.
Value(t) == IF res[t].fresh THEN res[t].val ELSE MonitorMap(res[t].kind)

MapsChanged == <<longLocks, stackCache, categoryStats>>' # <<longLocks, stackCache, categoryStats>>

\* C11: the map a read returns is the Monitor's map as it is at the return (one
\* instant between call and return, the mutex being held since the copy); no
\* later step that changes the Monitor's maps changes a map already returned;
\* and a caller's write to the map it holds changes none of the Monitor's maps.
C11_IndependentCopies ==
    /\ [](\A t \in Threads :
             (pc[t] = "Read_unlock") => Value(t) = MonitorMap(res[t].kind))
    /\ [][\A t \in Threads :
             (Returned(t) /\ MapsChanged) => (res'[t] = res[t] /\ Value(t)' = Value(t))]_vars
    /\ [][\A t \in Threads :
             (/\ Returned(t) /\ pc[t] = "idle" /\ pc'[t] = "idle"
              /\ res'[t].kind = res[t].kind /\ Value(t)' # Value(t))
             => ~MapsChanged]_vars

\* C11 witness: a goroutine holds a snapshot from which it has deleted a record,
\* the Monitor has that record still, and another record came after the copy.
C11_Witness ==
    \E t \in Threads :
        /\ pc[t] = "idle"
        /\ res[t].kind = "snapshot"
        /\ res[t].val = EmptyMap
        /\ Cardinality(DOMAIN longLocks) = 2
        /\ mu = NoThread

\* =========================================================================
\* Properties of New and SetCategory (SpecSetup)
\* =========================================================================
\* The goroutine is reporting an event of its instance: from the call of
\* m.monitor.Add in Lock to its return.
Reporting(t) == self[t] # NoMutex /\ pc[t] \in {"Add_lock"} \cup AddBody

\* The label the instance was given: the last SetCategory argument if not empty,
\* else the Monitor's default.
LabelGiven(m) ==
    IF lastLabel[m] \in {NoLabel, Empty} THEN defaultCategory ELSE lastLabel[m]

\* C13: the category of every event an instance reports is the last non-empty
\* label given to SetCategory on it, or the Monitor's default category when no
\* label was set or the last one was empty; and it is never empty.
C13_Original ==
    \A t \in Threads :
        Reporting(t) => /\ info[t].Category = LabelGiven(self[t])
                        /\ info[t].Category # Empty

\* C14: constructing an instance with no Monitor, calling SetCategory on it,
\* locking and unlocking it never fail, and its Lock and Unlock do what those of
\* the sync.Mutex do and nothing else.
C14_Original ==
    /\ NoPanic
    /\ \A t \in Threads :
          (self[t] # NoMutex /\ ~monitor[self[t]]) =>
              pc[t] \in {"Lock_acquire", "Lock_clear", "held", "Unlock_release"}

\* =========================================================================
\* Properties of getStackTrace (SpecCapture)
\* =========================================================================
\* The first of the sizes that satisfies the test.
FirstSize(Enough(_)) ==
    CHOOSE s \in Sizes : Enough(s) /\ \A r \in Sizes : Enough(r) => s <= r

\* The call is over: it ends in at most one step per buffer size, each step
\* either returning or doubling size.
CaptureEnds ==
    /\ [](size \in {0, 2 * MaxSize} \cup Sizes)
    /\ [](trace = NoTrace => ENABLED NextCapture)
    /\ [][trace = NoTrace /\ (size' > size \/ trace' # NoTrace)]_vars

\* C18 as stated: the whole text comes back whenever it fits in one of the
\* buffers, the largest included, the sentinel only when it does not.
C18_Original ==
    trace # NoTrace =>
        IF depth <= MaxSize
        THEN trace = Text(depth)
        ELSE trace = Sentinel

\* C18, amended: the call ends, without failing, after at most one runtime.Stack
\* per size 1024, 2048, ... 65536; it returns the whole text from the first size
\* strictly greater than the text's length (a buffer filled to its last byte
\* counts as truncated), and the sentinel when the text has 65536 bytes or more.
C18_CaptureFirstLargerBuffer ==
    /\ CaptureEnds
    /\ [](trace # NoTrace =>
             IF depth < MaxSize
             THEN /\ trace = Text(depth)
                  /\ LET Larger(s) == depth < s IN size = FirstSize(Larger)
             ELSE /\ trace = Sentinel
                  /\ size = 2 * MaxSize)

\* C18 witness: a text of 2048 bytes, which fills the second buffer, has come
\* back whole from the third.
C18_Witness ==
    /\ depth = 2 * BaseSize
    /\ trace = Text(2 * BaseSize)
    /\ size = 4 * BaseSize
====
